---- MODULE Spec2Model ----
(***************************************************************************)
(* Work Hours Tracker (Time_Tracker/Work_Hours.py): the session timer of   *)
(* TimeTrackerApp, the JSON record file and the edit window.               *)
(*                                                                         *)
(* Time is counted in whole ticks; the float seconds of time.time() and    *)
(* the microseconds of datetime.now() are not modelled.  time.time() and   *)
(* datetime.now() both read the system wall clock `now`, which advances    *)
(* with real time (Tick) and can also be stepped forward or backward       *)
(* (ClockStepForward, ClockStepBack).  `mono` is the real time passed.     *)
(*                                                                         *)
(* Every handler is one action, except the two that change state on both   *)
(* sides of a modal dialog: stop_timer waits in its comment dialog between *)
(* the commit of the open segment and the reading of the end time          *)
(* (stop_timer, stop_timer_comment), and save_changes waits in the box     *)
(* "Record updated." between the rewrite of the file and the closing of    *)
(* the edit dialog (save_changes, save_changes_destroy).  While a handler  *)
(* waits in a dialog only the clock and update_timer run.                  *)
(* What a handler reports (a messagebox, or the exception that ends it) is *)
(* kept in `last`.  Texts are records: an ISO string isoformat() writes    *)
(* has fmt "iso", the text of the edit dialog's format                     *)
(* "YYYY-MM-DD HH:MM:SS" has fmt "display".                                *)
(***************************************************************************)
EXTENDS Integers, Sequences, FiniteSets, TLC

\* ---------------------------------------------------------------- bounds
MaxTime == 2        \* ticks of real time
MaxJumps == 1       \* steps of the wall clock
MaxSessions == 1    \* records in the file, timer specification
MaxRecords == 2     \* records in the file, record-store specifications
MaxDialogs == 1     \* edit dialogs open at once
DayLen == 2         \* ticks in a calendar day
MaxDate == 2        \* the last calendar day of the exported records

\* The value of a field that holds Python's None (times are never negative).
None == -1

VARIABLES
    timer_running,        \* self.timer_running
    start_time,           \* self.start_time: time.time() at start/resume, or None
    start_time_dt,        \* self.start_time_dt: datetime.now() at start, or None
    elapsed_time,         \* self.elapsed_time
    timer_label,          \* text of self.timer_label: [h, m, s]
    DATA_FILE,            \* the file time_records.json
    edit_window,          \* an edit window (with its buttons) has been opened
    edit_window_records,  \* self.edit_window_records: the loaded dict objects
    listbox,              \* the lines of self.listbox
    dialogs,              \* the open "Edit Record" dialogs
    alive,                \* the process is running
    now,                  \* the system wall clock
    mono,                 \* real time passed
    jumps,                \* number of wall-clock steps so far
    stepped_back,         \* the wall clock has been stepped backward
    xlsx,                 \* the rows of the workbook saved by the last export
    comment_dialog,       \* stop_timer is waiting in its askstring dialog
    updated_box,          \* the dialog whose save_changes waits in its box "Record updated."
    last,                 \* the last handler that ran and how it ended
    seg_wall,             \* wall-clock time spent with timer_running since the last stop
    seg_mono              \* real time spent with timer_running since the last stop

timer == <<timer_running, start_time, start_time_dt, elapsed_time>>
clock == <<now, mono, jumps, stepped_back>>
ghost == <<seg_wall, seg_mono>>
editor == <<edit_window, edit_window_records, listbox, dialogs>>
vars == <<timer_running, start_time, start_time_dt, elapsed_time, timer_label,
          DATA_FILE, edit_window, edit_window_records, listbox, dialogs,
          alive, now, mono, jumps, stepped_back, xlsx, comment_dialog, updated_box, last,
          seg_wall, seg_mono>>

\* ------------------------------------------------------- pure functions

\* datetime.isoformat(): "<date>T<time of day>".
isoformat(dt) == [fmt |-> "iso", date |-> dt \div DayLen, tod |-> dt % DayLen]

\* datetime.fromisoformat(): the datetime an ISO string denotes.
fromisoformat(s) == s.date * DayLen + s.tod

\* datetime.fromisoformat raises ValueError on a text that is not a date or a
\* date and a time of day (a date alone is read as its midnight).
fromisoformat_fails(s) == s.fmt \notin {"iso", "display", "date"}

\* update_timer_label: seconds to the text HH:MM:SS.
label_text(elapsed_seconds) ==
    [h |-> elapsed_seconds \div 3600,
     m |-> (elapsed_seconds % 3600) \div 60,
     s |-> elapsed_seconds % 60]

\* load_records: the list in the file, [] when the file does not exist.
load_records == IF DATA_FILE.exists THEN DATA_FILE.items ELSE <<>>

\* json.load in load_records raises on a file that is not a whole JSON text.
load_fails == DATA_FILE.exists /\ ~DATA_FILE.whole

\* save_records: open(DATA_FILE, "w") and json.dump of the whole list.
save_records(records) == [exists |-> TRUE, whole |-> TRUE, items |-> records]

\* The record save_time_record builds.
new_record(start_dt, end_dt, elapsed_seconds, comment) ==
    [start_time |-> isoformat(start_dt),
     end_time   |-> isoformat(end_dt),
     elapsed    |-> elapsed_seconds,
     comment    |-> comment]

\* save_time_record putting the new record in front of the loaded ones.
save_time_record_Prepend(start_dt, end_dt, elapsed_seconds, comment) ==
    save_records(<<new_record(start_dt, end_dt, elapsed_seconds, comment)>>
                 \o load_records)

\* save_time_record: load, append, save.
save_time_record(start_dt, end_dt, elapsed_seconds, comment) ==
    save_records(Append(load_records,
                        new_record(start_dt, end_dt, elapsed_seconds, comment)))

\* simpledialog.askstring: the text typed, or None when the dialog is cancelled.
Comments == {"", "a"}
askstring == [ok : {TRUE}, text : Comments] \cup {[ok |-> FALSE, text |-> ""]}

Result(op, result) == [op |-> op, result |-> result]

\* ------------------------------------------------------------------ Init
Init ==
    /\ timer_running = FALSE
    /\ start_time = None
    /\ start_time_dt = None
    /\ elapsed_time = 0
    /\ timer_label = label_text(0)
    /\ DATA_FILE = [exists |-> FALSE, whole |-> TRUE, items |-> <<>>]
    /\ edit_window = FALSE
    /\ edit_window_records = <<>>
    /\ listbox = <<>>
    /\ dialogs = <<>>
    /\ alive = TRUE
    /\ xlsx = <<>>
    /\ comment_dialog = FALSE
    /\ updated_box = None
    /\ now = 0
    /\ mono = 0
    /\ jumps = 0
    /\ stepped_back = FALSE
    /\ last = Result("init", "ok")
    /\ seg_wall = 0
    /\ seg_mono = 0

\* ----------------------------------------------------------------- clock
Tick ==
    /\ mono < MaxTime
    /\ mono' = mono + 1
    /\ now' = now + 1
    /\ seg_wall' = IF timer_running THEN seg_wall + 1 ELSE seg_wall
    /\ seg_mono' = IF timer_running THEN seg_mono + 1 ELSE seg_mono
    /\ UNCHANGED <<timer, timer_label, xlsx, comment_dialog, updated_box, DATA_FILE, editor, alive, jumps,
                   stepped_back, last>>

ClockStepForward ==
    /\ jumps < MaxJumps
    /\ jumps' = jumps + 1
    /\ now' = now + 1
    /\ seg_wall' = IF timer_running THEN seg_wall + 1 ELSE seg_wall
    /\ UNCHANGED <<timer, timer_label, xlsx, comment_dialog, updated_box, DATA_FILE, editor, alive,
                   mono, stepped_back, last, seg_mono>>

ClockStepBack ==
    /\ jumps < MaxJumps
    /\ now > 0
    /\ jumps' = jumps + 1
    /\ now' = now - 1
    /\ stepped_back' = TRUE
    /\ seg_wall' = IF timer_running THEN seg_wall - 1 ELSE seg_wall
    /\ UNCHANGED <<timer, timer_label, xlsx, comment_dialog, updated_box, DATA_FILE, editor, alive,
                   mono, last, seg_mono>>

\* ----------------------------------------------------------------- timer
start_timer ==
    /\ alive
    /\ ~comment_dialog
    /\ updated_box = None
    /\ IF timer_running
       THEN /\ last' = Result("start_timer", "AlreadyRunning")
            /\ UNCHANGED timer
       ELSE /\ start_time_dt' = now
            /\ start_time' = now
            /\ timer_running' = TRUE
            /\ elapsed_time' = 0
            /\ last' = Result("start_timer", "ok")
    /\ UNCHANGED <<timer_label, xlsx, comment_dialog, updated_box, DATA_FILE, editor, alive, clock, ghost>>

\* pause_timer without its early return: it accumulates although no segment is open.
pause_timer_NoGuard ==
    /\ alive
    /\ ~comment_dialog
    /\ updated_box = None
    /\ elapsed_time' = elapsed_time + (now - start_time)
    /\ timer_running' = FALSE
    /\ last' = Result("pause_timer", "ok")
    /\ UNCHANGED <<start_time, start_time_dt>>
    /\ UNCHANGED <<timer_label, xlsx, comment_dialog, updated_box, DATA_FILE, editor, alive, clock, ghost>>

pause_timer ==
    /\ alive
    /\ ~comment_dialog
    /\ updated_box = None
    /\ IF ~timer_running
       THEN /\ last' = Result("pause_timer", "NotRunning")
            /\ UNCHANGED timer
       ELSE /\ elapsed_time' = elapsed_time + (now - start_time)
            /\ timer_running' = FALSE
            /\ last' = Result("pause_timer", "ok")
            /\ UNCHANGED <<start_time, start_time_dt>>
    /\ UNCHANGED <<timer_label, xlsx, comment_dialog, updated_box, DATA_FILE, editor, alive, clock, ghost>>

\* resume_timer leaving start_time at the start of the paused segment.
resume_timer_KeepSegment ==
    /\ alive
    /\ ~comment_dialog
    /\ updated_box = None
    /\ IF timer_running
       THEN /\ last' = Result("resume_timer", "AlreadyRunning")
            /\ UNCHANGED timer
       ELSE /\ start_time' = IF start_time = None THEN now ELSE start_time
            /\ timer_running' = TRUE
            /\ last' = Result("resume_timer", "ok")
            /\ UNCHANGED <<start_time_dt, elapsed_time>>
    /\ UNCHANGED <<timer_label, xlsx, comment_dialog, updated_box, DATA_FILE, editor, alive, clock, ghost>>

resume_timer ==
    /\ alive
    /\ ~comment_dialog
    /\ updated_box = None
    /\ IF timer_running
       THEN /\ last' = Result("resume_timer", "AlreadyRunning")
            /\ UNCHANGED timer
       ELSE /\ start_time' = now
            /\ timer_running' = TRUE
            /\ last' = Result("resume_timer", "ok")
            /\ UNCHANGED <<start_time_dt, elapsed_time>>
    /\ UNCHANGED <<timer_label, xlsx, comment_dialog, updated_box, DATA_FILE, editor, alive, clock, ghost>>

\* stop_timer without the commit of the open segment.
stop_elapsed_NoCommit == elapsed_time

\* elapsed_time after the lines `if self.timer_running: self.elapsed_time += ...`
\* of stop_timer.
stop_elapsed ==
    IF timer_running THEN elapsed_time + (now - start_time) ELSE elapsed_time

\* stop_timer up to its askstring call: the early return, or the commit of the
\* open segment and the comment dialog opened.  The dialog is modal and runs its
\* own event loop: until it is answered the clock moves and update_timer runs,
\* and no other handler does.
stop_timer ==
    /\ alive
    /\ ~comment_dialog
    /\ updated_box = None
    /\ UNCHANGED <<start_time, start_time_dt, timer_label, DATA_FILE, editor, alive,
                   clock, xlsx, updated_box, ghost>>
    /\ IF ~timer_running /\ elapsed_time = 0
       THEN /\ last' = Result("stop_timer", "NoActiveSession")
            /\ UNCHANGED <<timer_running, elapsed_time, comment_dialog>>
       ELSE /\ elapsed_time' = stop_elapsed
            /\ timer_running' = FALSE
            /\ comment_dialog' = TRUE
            /\ last' = Result("stop_timer", "askstring")

\* stop_timer while the file holds fewer than max records (the bound of a
\* specification on the length of the file).
stop_timer_upto(max) == Len(load_records) < max /\ stop_timer

\* stop_timer from the return of askstring: end_time_dt = datetime.now(),
\* save_time_record (load_records, then the new dict, then save_records) and
\* the reset.
stop_timer_comment ==
    /\ alive
    /\ comment_dialog
    /\ comment_dialog' = FALSE
    /\ seg_wall' = 0
    /\ seg_mono' = 0
    /\ UNCHANGED <<timer_running, editor, alive, clock, xlsx, updated_box>>
    /\ \E comment \in askstring :
         IF load_fails
         THEN \* load_records: json.load raises
              /\ last' = Result("stop_timer", "JSONDecodeError")
              /\ UNCHANGED <<start_time, start_time_dt, elapsed_time, timer_label,
                             DATA_FILE>>
         ELSE IF start_time_dt = None
         THEN \* start_time_dt.isoformat(): None has no isoformat
              /\ last' = Result("stop_timer", "AttributeError")
              /\ UNCHANGED <<start_time, start_time_dt, elapsed_time, timer_label,
                             DATA_FILE>>
         ELSE /\ DATA_FILE' = save_time_record(start_time_dt, now, elapsed_time,
                                               IF comment.ok THEN comment.text ELSE "")
              /\ elapsed_time' = 0
              /\ start_time' = None
              /\ start_time_dt' = None
              /\ timer_label' = label_text(0)
              /\ last' = Result("stop_timer", "ok")

\* update_timer: the 200 ms poll that refreshes the display.
current_elapsed ==
    IF timer_running THEN elapsed_time + (now - start_time) ELSE elapsed_time

\* update_timer adding the running segment to elapsed_time at every poll.
update_timer_Commit ==
    /\ alive
    /\ timer_label' = label_text(current_elapsed)
    /\ elapsed_time' = current_elapsed
    /\ UNCHANGED <<timer_running, start_time, start_time_dt>>
    /\ UNCHANGED <<DATA_FILE, editor, alive, clock, xlsx, comment_dialog, updated_box, last, ghost>>

update_timer ==
    /\ alive
    /\ timer_label' = label_text(current_elapsed)
    /\ UNCHANGED <<timer, DATA_FILE, editor, alive, clock, xlsx, comment_dialog, updated_box, last, ghost>>

\* ----------------------------------------------------------- edit window

\* The text "YYYY-MM-DD HH:MM:SS" of a datetime (strftime in iso_to_display).
strftime(dt) == [fmt |-> "display", date |-> dt \div DayLen, tod |-> dt % DayLen]

\* iso_to_display: a text fromisoformat reads, as "YYYY-MM-DD HH:MM:SS"; any
\* other text as it is.
iso_to_display(iso_str) ==
    IF fromisoformat_fails(iso_str) THEN iso_str
    ELSE strftime(fromisoformat(iso_str))

\* datetime.strptime(text, "%Y-%m-%d %H:%M:%S") raises ValueError on any other text.
strptime_fails(text) == text.fmt # "display"
strptime(text) == text.date * DayLen + text.tod

\* What the user may type into a time entry of the edit dialog: a time in the
\* expected format, or a time in ISO format (with the "T"), which strptime rejects.
TimeTexts == {strftime(0), strftime(DayLen), isoformat(0)}
EditComments == {"b"}

\* The listbox lines "Start: .. | End: .. | Comment: .." of a list of dicts.
listbox_lines(records) ==
    [i \in 1..Len(records) |->
        [start |-> records[i].start_time,
         end |-> records[i].end_time,
         comment |-> records[i].comment]]

\* listbox.curselection(): nothing selected (None), or one line.  Line i of the
\* model is Python's index i - 1.
curselection == {None} \cup (1..Len(listbox))

\* An edit dialog's closure holds the dict `record`, not its index.  A dict is
\* identified here by the place self.edit_window_records holds it at, and by
\* Detached once that list holds it no longer (the list was reloaded, or the
\* dict was deleted from it).
Detached == 0

\* The dicts of the open dialogs after self.edit_window_records is replaced by
\* a newly loaded list: json.load builds new dicts.
after_reload(dlgs) ==
    [d \in 1..Len(dlgs) |-> [dlgs[d] EXCEPT !.record = Detached]]

\* The dicts of the open dialogs after `del self.edit_window_records[index]`.
after_delete(dlgs, index) ==
    [d \in 1..Len(dlgs) |->
        [dlgs[d] EXCEPT !.record =
            IF @ = index THEN Detached ELSE IF @ > index THEN @ - 1 ELSE @]]

open_edit_window ==
    /\ alive
    /\ ~comment_dialog
    /\ updated_box = None
    /\ UNCHANGED <<timer, timer_label, xlsx, comment_dialog, updated_box, DATA_FILE, alive, clock, ghost>>
    /\ IF load_fails
       THEN /\ last' = Result("open_edit_window", "JSONDecodeError")
            /\ UNCHANGED <<edit_window, edit_window_records, listbox, dialogs>>
       ELSE IF load_records = <<>>
       THEN /\ last' = Result("open_edit_window", "NoData")
            /\ UNCHANGED <<edit_window, edit_window_records, listbox, dialogs>>
       ELSE /\ edit_window' = TRUE
            /\ edit_window_records' = load_records
            /\ listbox' = listbox_lines(edit_window_records')
            /\ dialogs' = after_reload(dialogs)
            /\ last' = Result("open_edit_window", "ok")

edit_selected_record ==
    /\ alive
    /\ ~comment_dialog
    /\ updated_box = None
    /\ edit_window
    /\ UNCHANGED <<timer, timer_label, xlsx, comment_dialog, updated_box, DATA_FILE, edit_window,
                   edit_window_records,
                   listbox, alive, clock, ghost>>
    /\ \E index \in curselection :
         IF index = None
         THEN /\ last' = Result("edit_selected_record", "NoSelection")
              /\ UNCHANGED dialogs
         ELSE IF index > Len(edit_window_records)
         THEN /\ last' = Result("edit_selected_record", "IndexError")
              /\ UNCHANGED dialogs
         ELSE /\ Len(dialogs) < MaxDialogs
              /\ dialogs' = Append(dialogs, [index |-> index, record |-> index])
              /\ last' = Result("edit_selected_record", "ok")

\* record["start_time"] = ... in save_changes: the captured dict is updated, and
\* the list shows the update where it still holds that dict.
update_record(records, record, rec) ==
    IF record = Detached THEN records ELSE [records EXCEPT ![record] = rec]

\* save_changes taking the difference the wrong way round.
edited_record_Reversed(dt_start, dt_end, new_comment) ==
    [start_time |-> isoformat(dt_start),
     end_time   |-> isoformat(dt_end),
     elapsed    |-> dt_start - dt_end,
     comment    |-> new_comment]

edited_record(dt_start, dt_end, new_comment) ==
    [start_time |-> isoformat(dt_start),
     end_time   |-> isoformat(dt_end),
     elapsed    |-> dt_end - dt_start,
     comment    |-> new_comment]

RemoveAt(seq, i) == SubSeq(seq, 1, i - 1) \o SubSeq(seq, i + 1, Len(seq))

\* The Save button of the d-th open edit dialog, with what the entries hold:
\* save_changes up to its box "Record updated.".  The dict, the file and the
\* listbox are rewritten and the handler waits in the box with the edit
\* dialog still open; a rejected input shows its error box and returns.
save_changes_with(d, new_start, new_end, new_comment) ==
    /\ alive
    /\ ~comment_dialog
    /\ updated_box = None
    /\ d \in 1..Len(dialogs)
    /\ UNCHANGED <<timer, timer_label, xlsx, comment_dialog, edit_window, dialogs, alive,
                   clock, ghost>>
    /\ IF strptime_fails(new_start) \/ strptime_fails(new_end)
       THEN /\ last' = Result("save_changes", "InvalidFormat")
            /\ UNCHANGED <<DATA_FILE, edit_window_records, listbox, updated_box>>
       ELSE IF strptime(new_end) < strptime(new_start)
       THEN /\ last' = Result("save_changes", "EndBeforeStart")
            /\ UNCHANGED <<DATA_FILE, edit_window_records, listbox, updated_box>>
       ELSE /\ edit_window_records' =
                  update_record(edit_window_records, dialogs[d].record,
                                edited_record(strptime(new_start), strptime(new_end),
                                              new_comment))
            /\ DATA_FILE' = save_records(edit_window_records')
            /\ listbox' = listbox_lines(edit_window_records')
            /\ updated_box' = d
            /\ last' = Result("save_changes", "ok")

save_changes ==
    \E d \in 1..Len(dialogs), new_start \in TimeTexts, new_end \in TimeTexts,
       new_comment \in EditComments :
        save_changes_with(d, new_start, new_end, new_comment)

\* The box "Record updated." is answered and save_changes ends with
\* edit_dialog.destroy(): the edit dialog closes.
save_changes_destroy ==
    /\ alive
    /\ updated_box # None
    /\ dialogs' = RemoveAt(dialogs, updated_box)
    /\ updated_box' = None
    /\ UNCHANGED <<timer, timer_label, DATA_FILE, edit_window, edit_window_records, listbox,
                   alive, clock, xlsx, comment_dialog, last, ghost>>

delete_selected_record ==
    /\ alive
    /\ ~comment_dialog
    /\ updated_box = None
    /\ edit_window
    /\ UNCHANGED <<timer, timer_label, xlsx, comment_dialog, updated_box, edit_window, alive, clock, ghost>>
    /\ \E index \in curselection, askyesno \in BOOLEAN :
         IF index = None
         THEN /\ last' = Result("delete_selected_record", "NoSelection")
              /\ UNCHANGED <<DATA_FILE, edit_window_records, listbox, dialogs>>
         ELSE IF ~askyesno
         THEN /\ last' = Result("delete_selected_record", "declined")
              /\ UNCHANGED <<DATA_FILE, edit_window_records, listbox, dialogs>>
         ELSE /\ edit_window_records' = RemoveAt(edit_window_records, index)
              /\ DATA_FILE' = save_records(edit_window_records')
              /\ listbox' = listbox_lines(edit_window_records')
              /\ dialogs' = after_delete(dialogs, index)
              /\ last' = Result("delete_selected_record", "ok")

\* del self.edit_window_records[index] with Python's own index (the first entry
\* is 0, a negative index counts from the end): the place of the model's
\* sequence it removes.
del_place(records, index) ==
    IF index < 0 THEN Len(records) + index + 1 ELSE index + 1

\* A del that lets an index past the end through.
del_raises_NoCheck(records, index) == FALSE

\* del self.edit_window_records[index] raises IndexError.
del_raises(records, index) == del_place(records, index) \notin 1..Len(records)

\* What get_selected_list_index returns for a selected line: the Python index
\* of a line of the listbox, 0 for the first.
IndexInputs == 0..(Len(listbox) - 1)

\* delete_selected_record for the selected line `index`, confirmed by the
\* user: lines 335-351.
delete_record_at(index) ==
    /\ alive
    /\ ~comment_dialog
    /\ updated_box = None
    /\ edit_window
    /\ UNCHANGED <<timer, timer_label, xlsx, comment_dialog, updated_box, edit_window, alive,
                   clock, ghost>>
    /\ IF del_raises(edit_window_records, index)
       THEN /\ last' = Result("delete_selected_record", "IndexError")
            /\ UNCHANGED <<DATA_FILE, edit_window_records, listbox, dialogs>>
       ELSE /\ edit_window_records' =
                  RemoveAt(edit_window_records, del_place(edit_window_records, index))
            /\ DATA_FILE' = save_records(edit_window_records')
            /\ listbox' = listbox_lines(edit_window_records')
            /\ dialogs' = after_delete(dialogs, del_place(edit_window_records, index))
            /\ last' = Result("delete_selected_record", "ok")

\* The same handler when open(DATA_FILE, "w") in save_records raises OSError
\* (the file is locked or not writable): the entry is already removed from
\* the list, the file is not touched, and the handler ends before it
\* refreshes the listbox, which keeps the line of the removed record.
delete_record_at_oserror(index) ==
    /\ alive
    /\ ~comment_dialog
    /\ updated_box = None
    /\ edit_window
    /\ ~del_raises(edit_window_records, index)
    /\ edit_window_records' =
          RemoveAt(edit_window_records, del_place(edit_window_records, index))
    /\ dialogs' = after_delete(dialogs, del_place(edit_window_records, index))
    /\ last' = Result("delete_selected_record", "OSError")
    /\ UNCHANGED <<timer, timer_label, xlsx, comment_dialog, updated_box, DATA_FILE,
                   edit_window, listbox, alive, clock, ghost>>

delete_record_at_any ==
    \E index \in IndexInputs :
        \/ delete_record_at(index)
        \/ delete_record_at_oserror(index)

\* ------------------------------------------- a save that is interrupted

\* The file after the process is stopped inside save_records(records):
\* open(DATA_FILE, "w") has emptied the file and json.dump has written the
\* text of the first k records, without the closing bracket.
killed_file(records, k) ==
    [exists |-> TRUE, whole |-> FALSE, items |-> SubSeq(records, 1, k)]

\* stop_timer, stopped inside save_records (after the comment dialog).
stop_timer_killed ==
    /\ alive
    /\ comment_dialog
    /\ start_time_dt # None
    /\ ~load_fails
    /\ \E comment \in askstring :
       \E k \in 0..Len(load_records) + 1 :
         DATA_FILE' = killed_file(
            save_time_record(start_time_dt, now, elapsed_time,
                             IF comment.ok THEN comment.text ELSE "").items, k)
    /\ alive' = FALSE
    /\ comment_dialog' = FALSE
    /\ last' = Result("stop_timer", "killed")
    /\ UNCHANGED <<timer, timer_label, xlsx, updated_box, editor, clock, ghost>>

\* delete_selected_record, stopped inside save_records.
delete_selected_record_killed ==
    /\ alive
    /\ ~comment_dialog
    /\ updated_box = None
    /\ edit_window
    /\ \E index \in 1..Len(listbox) :
         /\ edit_window_records' = RemoveAt(edit_window_records, index)
         /\ dialogs' = after_delete(dialogs, index)
    /\ \E k \in 0..Len(edit_window_records') :
         DATA_FILE' = killed_file(edit_window_records', k)
    /\ alive' = FALSE
    /\ last' = Result("delete_selected_record", "killed")
    /\ UNCHANGED <<timer, timer_label, xlsx, comment_dialog, updated_box, edit_window, listbox, clock,
                   ghost>>

\* save_changes, stopped inside save_records.
save_changes_killed ==
    /\ alive
    /\ ~comment_dialog
    /\ updated_box = None
    /\ \E d \in 1..Len(dialogs), new_start \in TimeTexts, new_end \in TimeTexts,
          new_comment \in EditComments :
         /\ ~strptime_fails(new_start)
         /\ ~strptime_fails(new_end)
         /\ strptime(new_end) >= strptime(new_start)
         /\ edit_window_records' =
               update_record(edit_window_records, dialogs[d].record,
                             edited_record(strptime(new_start), strptime(new_end),
                                           new_comment))
    /\ \E k \in 0..Len(edit_window_records') :
         DATA_FILE' = killed_file(edit_window_records', k)
    /\ alive' = FALSE
    /\ last' = Result("save_changes", "killed")
    /\ UNCHANGED <<timer, timer_label, xlsx, comment_dialog, updated_box, edit_window, listbox, dialogs,
                   clock, ghost>>

\* main(): the program is started again; the file and the clock are as they were.
main ==
    /\ ~alive
    /\ alive' = TRUE
    /\ timer_running' = FALSE
    /\ start_time' = None
    /\ start_time_dt' = None
    /\ elapsed_time' = 0
    /\ timer_label' = label_text(0)
    /\ edit_window' = FALSE
    /\ edit_window_records' = <<>>
    /\ listbox' = <<>>
    /\ dialogs' = <<>>
    /\ seg_wall' = 0
    /\ seg_mono' = 0
    /\ comment_dialog' = FALSE
    /\ updated_box' = None
    /\ last' = Result("main", "ok")
    /\ UNCHANGED <<DATA_FILE, xlsx, clock>>

\* ---------------------------------------------------------------- export

\* A date typed as "YYYY-MM-DD", the empty text, and a text that is no date or
\* time at all.
date_text(d) == [fmt |-> "date", date |-> d, tod |-> 0]
empty_text == [fmt |-> "", date |-> 0, tod |-> 0]
other_text == [fmt |-> "text", date |-> 0, tod |-> 0]

\* datetime.strptime(text, "%Y-%m-%d") raises ValueError on any other text;
\* .date() of what it returns.
strpdate_fails(text) == text.fmt # "date"
strpdate(text) == text.date

\* start_date <= dt_start < end_date, the last day left out.
in_range_Exclusive(start_date, dt_start, end_date) ==
    start_date <= dt_start /\ dt_start < end_date

\* start_date <= dt_start <= end_date
in_range(start_date, dt_start, end_date) ==
    start_date <= dt_start /\ dt_start <= end_date

\* The filter loop of export_data_to_excel, from the i-th record on.
RECURSIVE filter_from(_, _, _, _)
filter_from(records, i, start_date, end_date) ==
    IF i > Len(records)
    THEN <<>>
    ELSE LET r == records[i]
             rest == filter_from(records, i + 1, start_date, end_date)
         IN  IF fromisoformat_fails(r.start_time)
             THEN rest
             ELSE IF in_range(start_date, fromisoformat(r.start_time) \div DayLen,
                              end_date)
             THEN <<r>> \o rest
             ELSE rest

\* sum(rec["elapsed"] for rec in filtered)
RECURSIVE sum_elapsed(_)
sum_elapsed(filtered) ==
    IF filtered = <<>> THEN 0
    ELSE Head(filtered).elapsed + sum_elapsed(Tail(filtered))

\* The totals (in seconds, up to 400) at which total / 3600 lies halfway between
\* two hundredths and the float nearest to it lies above the halfway point.
HalfwayRoundedUp == {18, 90, 126, 198, 234, 306, 342}

\* f"{total_hours:.2f}" cutting the digits after the second decimal off.
format_2f_Truncated(total_seconds) ==
    [fmt |-> ".2f", hundredths |-> (total_seconds * 100) \div 3600]

\* f"{total_hours:.2f}" of total_hours = total_seconds / 3600: the text of the
\* nearest hundredth.
format_2f(total_seconds) ==
    LET q == (total_seconds * 100) \div 3600
        r == (total_seconds * 100) % 3600
    IN  [fmt |-> ".2f",
         hundredths |-> IF r > 1800 \/ (r = 1800 /\ total_seconds \in HalfwayRoundedUp)
                        THEN q + 1 ELSE q]

headers == <<"Start Time", "End Time", "Elapsed (seconds)", "Comment">>
row_of(rec) == <<rec.start_time, rec.end_time, rec.elapsed, rec.comment>>
blank_row == <<"", "", "", "">>

\* The rows appended to the worksheet, in the order of the ws.append calls.
worksheet(filtered) ==
    <<headers>>
    \o [k \in 1..Len(filtered) |-> row_of(filtered[k])]
    \o <<blank_row,
         <<"", "", sum_elapsed(filtered), "TOTAL SECONDS">>,
         <<"", "", format_2f(sum_elapsed(filtered)), "TOTAL HOURS">> >>

\* export_data_dialog with the answers of its three dialogs; an empty answer
\* (or a cancelled dialog) ends it before anything is read or written.
export_data_dialog_with(start_date_str, end_date_str, export_filename) ==
    /\ alive
    /\ ~comment_dialog
    /\ updated_box = None
    /\ UNCHANGED <<timer, timer_label, DATA_FILE, editor, alive, clock, comment_dialog, updated_box,
                   ghost>>
    /\ IF \/ start_date_str = empty_text
          \/ end_date_str = empty_text
          \/ export_filename = ""
       THEN /\ last' = Result("export_data_dialog", "cancelled")
            /\ UNCHANGED xlsx
       ELSE IF load_fails
       THEN /\ last' = Result("export_data_dialog", "JSONDecodeError")
            /\ UNCHANGED xlsx
       ELSE IF strpdate_fails(start_date_str) \/ strpdate_fails(end_date_str)
       THEN /\ last' = Result("export_data_dialog",
                              "Dates must be in YYYY-MM-DD format.")
            /\ UNCHANGED xlsx
       ELSE LET filtered == filter_from(load_records, 1, strpdate(start_date_str),
                                        strpdate(end_date_str))
            IN  IF filtered = <<>>
                THEN /\ last' = Result("export_data_dialog",
                                       "No records found in the specified date range.")
                     /\ UNCHANGED xlsx
                ELSE /\ xlsx' = worksheet(filtered)
                     /\ last' = Result("export_data_dialog", "Export Successful")

\* What filedialog.asksaveasfilename returns: "" when the dialog is cancelled.
FileNames == {"", "export.xlsx"}

\* The dates of the export: days 0..MaxDate.
Dates == {date_text(d) : d \in 0..MaxDate}
DateTexts == Dates \cup {isoformat(0), empty_text}

export_data_dialog ==
    \E start_date_str \in DateTexts, end_date_str \in DateTexts,
       export_filename \in FileNames :
        export_data_dialog_with(start_date_str, end_date_str, export_filename)

\* The records of the files exported from: sessions late on each day, each as
\* long as its elapsed seconds, and an entry whose start_time is not a time.
ExportElapsed == {18, 20}
ExportRecords ==
    {new_record(d * DayLen + (DayLen - 1), d * DayLen + (DayLen - 1) + e, e, "a") :
        d \in 0..MaxDate, e \in ExportElapsed}
    \cup {[start_time |-> other_text, end_time |-> isoformat(0),
           elapsed |-> 18, comment |-> "a"]}
ExportFiles ==
    {save_records(records) :
        records \in UNION {[1..n -> ExportRecords] : n \in 0..MaxRecords}}

\* ------------------------------------------------------- specifications

\* The session timer under a wall clock that can be stepped.
NextTimer ==
    \/ Tick
    \/ ClockStepForward
    \/ ClockStepBack
    \/ start_timer
    \/ pause_timer
    \/ resume_timer
    \/ stop_timer_upto(MaxSessions)
    \/ stop_timer_comment

SpecTimer == Init /\ [][NextTimer]_vars

\* The record file and the edit window.  No time passes: every session is
\* started and stopped at the same clock reading.
NextStore ==
    \/ start_timer
    \/ stop_timer_upto(MaxRecords)
    \/ stop_timer_comment
    \/ open_edit_window
    \/ edit_selected_record
    \/ save_changes
    \/ save_changes_destroy
    \/ delete_selected_record

SpecStore == Init /\ [][NextStore]_vars

\* The record file when the process can be stopped inside a save.
NextCrash ==
    \/ NextStore
    \/ stop_timer_killed
    \/ save_changes_killed
    \/ delete_selected_record_killed
    \/ main

SpecCrash == Init /\ [][NextCrash]_vars

\* The session timer under a wall clock that can be stepped, with edits of the
\* records it stores.
NextRecords ==
    \/ Tick
    \/ ClockStepForward
    \/ ClockStepBack
    \/ start_timer
    \/ pause_timer
    \/ resume_timer
    \/ stop_timer_upto(MaxSessions)
    \/ stop_timer_comment
    \/ open_edit_window
    \/ edit_selected_record
    \/ save_changes
    \/ save_changes_destroy

SpecRecords == Init /\ [][NextRecords]_vars

\* The record file and the edit window, with a data file that can refuse to be
\* opened for writing when a record is deleted.
NextDeleteAt ==
    \/ start_timer
    \/ stop_timer_upto(MaxRecords)
    \/ stop_timer_comment
    \/ open_edit_window
    \/ edit_selected_record
    \/ save_changes
    \/ save_changes_destroy
    \/ delete_record_at_any

SpecDeleteAt == Init /\ [][NextDeleteAt]_vars

\* The session timer with the display polled between any two handlers.
NextPoll ==
    \/ Tick
    \/ start_timer
    \/ pause_timer
    \/ resume_timer
    \/ stop_timer_upto(MaxSessions)
    \/ stop_timer_comment
    \/ update_timer

SpecPoll == Init /\ [][NextPoll]_vars

\* The export, from any file of up to MaxRecords records.
InitExport ==
    /\ timer_running = FALSE
    /\ start_time = None
    /\ start_time_dt = None
    /\ elapsed_time = 0
    /\ timer_label = label_text(0)
    /\ DATA_FILE \in ExportFiles
    /\ edit_window = FALSE
    /\ edit_window_records = <<>>
    /\ listbox = <<>>
    /\ dialogs = <<>>
    /\ alive = TRUE
    /\ xlsx = <<>>
    /\ comment_dialog = FALSE
    /\ updated_box = None
    /\ now = 0
    /\ mono = 0
    /\ jumps = 0
    /\ stepped_back = FALSE
    /\ last = Result("init", "ok")
    /\ seg_wall = 0
    /\ seg_mono = 0

NextExport == export_data_dialog

SpecExport == InitExport /\ [][NextExport]_vars

\* ----------------------------------------------------------------- claims

\* The states of the session timer: a session is open from a successful start
\* to the stop that records it (start_time_dt is set exactly then).
Running == timer_running /\ start_time_dt # None
Paused == ~timer_running /\ start_time_dt # None
Idle == ~timer_running /\ start_time_dt = None

items == DATA_FILE.items

\* The step of stop_timer, after its comment dialog, that appended a record to
\* the file.
StopRecorded ==
    /\ stop_timer_comment
    /\ last' = Result("stop_timer", "ok")
    /\ Len(items') = Len(items) + 1

\* C1: the elapsed value stop writes into the record is the sum of the
\* durations of all Running segments (start or resume to the following pause
\* or stop) since the previous stop, paused intervals excluded.
C1_ElapsedIsSumOfRunningSegments ==
    [][StopRecorded => items'[Len(items')].elapsed = seg_wall]_vars

\* C2: start() while the session is Running or Paused fails with
\* AlreadyRunning and changes no timer field.
C2_StartWhileOpenChangesNothing ==
    [][(start_timer /\ (Running \/ Paused))
        => (last' = Result("start_timer", "AlreadyRunning") /\ UNCHANGED timer)]_vars

\* C3: stop() succeeds and appends a record whenever a session is open (Running
\* or Paused, zero accumulated time included), and fails with NoActiveSession
\* exactly when the timer is Idle.
C3_StopSucceedsIffSessionOpen ==
    [][/\ stop_timer =>
           /\ (Running \/ Paused) => comment_dialog'
           /\ Idle => (last' = Result("stop_timer", "NoActiveSession")
                       /\ UNCHANGED <<timer, DATA_FILE>>)
       /\ (stop_timer_comment /\ start_time_dt # None) =>
              (last' = Result("stop_timer", "ok") /\ Len(items') = Len(items) + 1)]_vars

\* C4: resume() takes effect only from Paused; from Idle it fails with
\* NotRunning, from Running with AlreadyRunning, and both leave the timer as
\* it was.
C4_ResumeOnlyFromPaused ==
    [][resume_timer =>
        /\ Idle => (last' = Result("resume_timer", "NotRunning") /\ UNCHANGED timer)
        /\ Running => (last' = Result("resume_timer", "AlreadyRunning")
                       /\ UNCHANGED timer)]_vars

\* C5: pause() while the timer is Idle or already Paused fails with NotRunning
\* and leaves the accumulated seconds unchanged.
C5_PauseWhileNotRunning ==
    [][(pause_timer /\ ~timer_running)
        => (last' = Result("pause_timer", "NotRunning")
            /\ elapsed_time' = elapsed_time)]_vars

\* A second pause in a row, on a paused session that has accumulated time.
C5_Witness ==
    /\ last = Result("pause_timer", "NotRunning")
    /\ Paused
    /\ elapsed_time > 0

\* C6: after every successful stop(), from Running or from Paused, all timer
\* fields are cleared, and the appended record carries the session's start
\* timestamp, the end timestamp taken at stop, and the accumulated seconds as
\* they were before the reset (the open segment committed).
C6_StopResetsAndRecords ==
    [][/\ (stop_timer /\ comment_dialog') =>
            /\ timer_running' = FALSE
            /\ elapsed_time' = IF timer_running THEN elapsed_time + (now - start_time)
                               ELSE elapsed_time
       /\ StopRecorded =>
            /\ timer_running' = FALSE
            /\ start_time' = None
            /\ start_time_dt' = None
            /\ elapsed_time' = 0
            /\ items'[Len(items')].start_time = isoformat(start_time_dt)
            /\ items'[Len(items')].end_time = isoformat(now)
            /\ items'[Len(items')].elapsed = elapsed_time]_vars

\* A session with time accumulated over a pause has been stopped and recorded.
C6_Witness ==
    /\ last = Result("stop_timer", "ok")
    /\ Idle
    /\ Len(items) >= 1
    /\ items[Len(items)].elapsed > 0
    /\ fromisoformat(items[Len(items)].end_time)
          > fromisoformat(items[Len(items)].start_time) + items[Len(items)].elapsed

\* A step of delete_selected_record that the user confirmed.
DeleteConfirmed ==
    /\ delete_selected_record
    /\ last' = Result("delete_selected_record", "ok")

\* C7: a record in durable storage is destroyed only by an explicit delete of
\* that record: no other step makes storage hold fewer records, and a delete
\* removes one record only.
C7_RecordsDestroyedOnlyByDelete ==
    [][IF DeleteConfirmed
       THEN Len(items') >= Len(items) - 1
       ELSE Len(items') >= Len(items)]_vars

\* C8: save is all-or-nothing: whatever happens during a save, durable storage
\* holds the complete previous sequence or a complete new one.
C8_SaveAllOrNothing ==
    [][DATA_FILE' = DATA_FILE \/ DATA_FILE'.whole]_vars

\* C9: append leaves durable storage equal to the sequence that was in storage
\* immediately before the call followed by the new record.
C9_AppendKeepsEarlierEntries ==
    [][StopRecorded =>
        /\ SubSeq(items', 1, Len(items)) = load_records
        /\ items'[Len(items')] =
              new_record(start_time_dt, now, elapsed_time, items'[Len(items')].comment)
        /\ items'[Len(items')].comment \in Comments]_vars

\* A record was appended behind an earlier one that differs from it.
C9_Witness ==
    /\ last = Result("stop_timer", "ok")
    /\ Len(items) = 2
    /\ items[1] # items[2]

\* C10: after an edit commit for the record selected at index i succeeds,
\* durable storage holds the new start, end, elapsed and comment at position i
\* and every other entry of the current snapshot unchanged.
C10_EditCommitWritesSelectedRecord ==
    [][\A d \in 1..Len(dialogs), new_start \in TimeTexts, new_end \in TimeTexts,
          new_comment \in EditComments :
        (/\ save_changes_with(d, new_start, new_end, new_comment)
         /\ ~strptime_fails(new_start)
         /\ ~strptime_fails(new_end)
         /\ strptime(new_end) >= strptime(new_start))
        => LET i == dialogs[d].index IN
           /\ i <= Len(items')
           /\ items'[i] = edited_record(strptime(new_start), strptime(new_end),
                                        new_comment)
           /\ \A j \in 1..Len(edit_window_records) :
                 j # i => (j <= Len(items') /\ items'[j] = edit_window_records[j])]_vars

\* C11: deleteAt(index) with an index outside the record count (index < 0 or
\* index >= the number of records in the snapshot) fails with IndexOutOfRange,
\* leaves the snapshot unmodified and writes nothing; with an index within the
\* count it removes exactly that entry and keeps the others in order.
C11_DeleteAtChecksIndex ==
    [][\A index \in IndexInputs :
        (delete_record_at(index) \/ delete_record_at_oserror(index)) =>
            IF index < 0 \/ index >= Len(edit_window_records)
            THEN /\ last' = Result("delete_selected_record", "IndexError")
                 /\ UNCHANGED <<edit_window_records, DATA_FILE>>
            ELSE /\ edit_window_records' = RemoveAt(edit_window_records, index + 1)
                 /\ delete_record_at(index) =>
                       /\ last' = Result("delete_selected_record", "ok")
                       /\ DATA_FILE' = save_records(edit_window_records')]_vars

\* A line past the end of the snapshot has been selected and its delete
\* refused: the listbox still shows a record an unwritten delete removed.
C11_Witness ==
    /\ last = Result("delete_selected_record", "IndexError")
    /\ Len(listbox) > Len(edit_window_records)
    /\ Len(edit_window_records) > 0

\* C12: validateAndBuild fails with EndBeforeStart exactly when the parsed end
\* is strictly earlier than the parsed start; with end equal to start it
\* succeeds with elapsed 0, and on every success the record's elapsed seconds
\* are end minus start and its comment is the text given.
C12_ValidateAndBuild ==
    [][\A d \in 1..Len(dialogs), new_start \in TimeTexts, new_end \in TimeTexts,
          new_comment \in EditComments :
        (/\ save_changes_with(d, new_start, new_end, new_comment)
         /\ ~strptime_fails(new_start)
         /\ ~strptime_fails(new_end))
        => /\ (last' = Result("save_changes", "EndBeforeStart"))
                 <=> (strptime(new_end) < strptime(new_start))
           /\ (strptime(new_end) >= strptime(new_start))
                 => /\ last' = Result("save_changes", "ok")
                    /\ dialogs[d].record # Detached =>
                          LET r == edit_window_records'[dialogs[d].record] IN
                          /\ r.start_time = isoformat(strptime(new_start))
                          /\ r.end_time = isoformat(strptime(new_end))
                          /\ r.elapsed = strptime(new_end) - strptime(new_start)
                          /\ (new_end = new_start => r.elapsed = 0)
                          /\ r.comment = new_comment]_vars

\* An edit with an end later than its start has been committed and stored.
C12_Witness ==
    /\ last = Result("save_changes", "ok")
    /\ \E i \in 1..Len(items) :
          /\ items[i].comment \in EditComments
          /\ items[i].elapsed = DayLen
          /\ items[i].end_time # items[i].start_time

\* C13: every record in durable storage has an end time that is not before its
\* start time, after any sequence of timer operations and edit commits.
C13_EndNotBeforeStart ==
    \A i \in 1..Len(items) :
        fromisoformat(items[i].end_time) >= fromisoformat(items[i].start_time)

\* The places in the file of the records whose start_time has a calendar date
\* from start_date to end_date, both included.
SelectedPlaces(records, start_date, end_date) ==
    {i \in 1..Len(records) :
        /\ ~fromisoformat_fails(records[i].start_time)
        /\ start_date <= records[i].start_time.date
        /\ records[i].start_time.date <= end_date}

\* The k-th smallest member of a set of places.
Place(S, k) == CHOOSE i \in S : Cardinality({j \in S : j <= i}) = k

\* The rows of a saved worksheet between the header row and the blank row.
record_rows(sheet) == SubSeq(sheet, 2, Len(sheet) - 3)

ExportSucceeded == last = Result("export_data_dialog", "Export Successful")
NoRecordsInRange ==
    last = Result("export_data_dialog", "No records found in the specified date range.")

\* C14: an export with two well-formed dates selects exactly the records whose
\* start_time falls on a calendar day from the start date to the end date, both
\* included and whatever the time of day, in the order of the file; when that
\* is no record, nothing is written.
C14_SelectRange ==
    [][\A start_date_str \in Dates, end_date_str \in Dates :
         export_data_dialog_with(start_date_str, end_date_str, "export.xlsx")
         => LET S == SelectedPlaces(load_records, start_date_str.date,
                                    end_date_str.date)
            IN  IF S = {}
                THEN UNCHANGED xlsx
                ELSE /\ Len(record_rows(xlsx')) = Cardinality(S)
                     /\ \A k \in 1..Cardinality(S) :
                          record_rows(xlsx')[k] = row_of(load_records[Place(S, k)])]_vars

\* An export has selected one of two records that both have a start date, on
\* different days.
C14_Witness ==
    /\ ExportSucceeded
    /\ Len(items) = 2
    /\ ~fromisoformat_fails(items[1].start_time)
    /\ ~fromisoformat_fails(items[2].start_time)
    /\ items[1].start_time.date # items[2].start_time.date
    /\ Len(record_rows(xlsx)) = 1
    /\ record_rows(xlsx)[1] = row_of(items[2])

\* C15: an export whose end date is before its start date fails, and with an
\* error other than the one of an empty selection.
C15_InvalidDateRange ==
    [][\A start_date_str \in Dates, end_date_str \in Dates :
         (/\ export_data_dialog_with(start_date_str, end_date_str, "export.xlsx")
          /\ end_date_str.date < start_date_str.date)
         => (~ExportSucceeded' /\ ~NoRecordsInRange')]_vars

\* The sum of elapsed over the records at a set of places.
RECURSIVE SumOver(_, _)
SumOver(records, S) ==
    IF S = {} THEN 0
    ELSE LET i == CHOOSE i \in S : TRUE
         IN  records[i].elapsed + SumOver(records, S \ {i})

\* The table of an export: header, the selected records in the order of the
\* file, a blank row, the TOTAL SECONDS row with the sum of their elapsed.
ExportTable(sheet, records, S) ==
    /\ Len(sheet) = Cardinality(S) + 4
    /\ sheet[1] = headers
    /\ \A k \in 1..Cardinality(S) : sheet[k + 1] = row_of(records[Place(S, k)])
    /\ sheet[Len(sheet) - 2] = blank_row
    /\ sheet[Len(sheet) - 1] = <<"", "", SumOver(records, S), "TOTAL SECONDS">>
    /\ sheet[Len(sheet)][1] = ""
    /\ sheet[Len(sheet)][2] = ""
    /\ sheet[Len(sheet)][3].fmt = ".2f"
    /\ sheet[Len(sheet)][4] = "TOTAL HOURS"

\* C16: the export table is the header row, one row per selected record in the
\* order of the file, a blank row, a TOTAL SECONDS row with the sum of elapsed
\* over the selected records, and a TOTAL HOURS row whose value is that sum
\* divided by 3600 (value / 100 = sum / 3600, the value being in hundredths).
C16_ExportTable ==
    [][\A start_date_str \in Dates, end_date_str \in Dates :
         (/\ export_data_dialog_with(start_date_str, end_date_str, "export.xlsx")
          /\ ExportSucceeded')
         => LET S == SelectedPlaces(load_records, start_date_str.date,
                                    end_date_str.date)
            IN  /\ ExportTable(xlsx', load_records, S)
                /\ xlsx'[Len(xlsx')][3].hundredths * 36 = SumOver(load_records, S)]_vars

\* C16, amended: the same table, the value of the TOTAL HOURS row being the sum
\* divided by 3600 as a text rounded to two decimals (the hundredth nearest to
\* sum / 3600).
C16_ExportTableRounded ==
    [][\A start_date_str \in Dates, end_date_str \in Dates :
         (/\ export_data_dialog_with(start_date_str, end_date_str, "export.xlsx")
          /\ ExportSucceeded')
         => LET S == SelectedPlaces(load_records, start_date_str.date,
                                    end_date_str.date)
                d == xlsx'[Len(xlsx')][3].hundredths * 36 - SumOver(load_records, S)
            IN  /\ ExportTable(xlsx', load_records, S)
                /\ d <= 18
                /\ 0 - d <= 18]_vars

\* An export of two records, out of file order by date, whose total is not a
\* whole number of hundredths of an hour.
C16_Witness ==
    /\ ExportSucceeded
    /\ Len(xlsx) = 6
    /\ xlsx[2][1].date > xlsx[3][1].date
    /\ xlsx[5][3] = 38
    /\ xlsx[6][3] = [fmt |-> ".2f", hundredths |-> 1]

\* C17: the poll of the display changes none of timer_running, start_time,
\* start_time_dt and elapsed_time, wherever it comes between start, pause,
\* resume and stop, and shows elapsed_time when the timer is not running and
\* elapsed_time plus the time since start_time when it is.
C17_PollIsPureQuery ==
    [][update_timer
       => /\ UNCHANGED <<timer_running, start_time, start_time_dt, elapsed_time>>
          /\ UNCHANGED DATA_FILE
          /\ ~timer_running => timer_label' = label_text(elapsed_time)
          /\ timer_running => timer_label' = label_text(elapsed_time + (now - start_time))]_vars

\* The display polled in a second running segment, after a pause: it shows the
\* committed time plus the time since the resume.
C17_Witness ==
    /\ timer_running
    /\ elapsed_time > 0
    /\ now > start_time
    /\ timer_label = label_text(elapsed_time + (now - start_time))
    /\ timer_label # label_text(elapsed_time)

\* C18: whatever the wall clock does while a session is Running, the seconds
\* committed by pause are the real time the session has spent running, and
\* elapsed_time is never negative.
C18_IntervalsIgnoreWallClockJumps ==
    /\ elapsed_time >= 0
    /\ (Paused /\ last = Result("pause_timer", "ok")) => elapsed_time = seg_mono

\* C19: in every state in which stop_timer would go on to build a record (the
\* timer is running or elapsed_time is not zero), start_time_dt is set, and
\* stop_timer never fails in save_time_record after clearing timer_running.
C19_StopHasStartTime ==
    /\ (timer_running \/ elapsed_time # 0) => start_time_dt # None
    /\ last # Result("stop_timer", "AttributeError")

\* C20: a record written by stop_timer while the wall clock has never been
\* stepped backward has 0 <= elapsed <= end_time - start_time.
C20_ElapsedWithinSessionSpan ==
    [][(StopRecorded /\ ~stepped_back)
       => LET rec == items'[Len(items')]
          IN  /\ 0 <= rec.elapsed
              /\ rec.elapsed <= fromisoformat(rec.end_time)
                                  - fromisoformat(rec.start_time)]_vars

\* A session with a pause has been recorded under a clock never stepped
\* backward: its elapsed is positive and less than its span.
C20_Witness ==
    /\ ~stepped_back
    /\ last = Result("stop_timer", "ok")
    /\ Len(items) >= 1
    /\ items[Len(items)].elapsed > 0
    /\ items[Len(items)].elapsed
          < fromisoformat(items[Len(items)].end_time)
              - fromisoformat(items[Len(items)].start_time)

====
